---- MODULE Spec2Model ----
(***************************************************************************)
(* Coconut threshold credentials (coconut/scheme.py, coconut/proofs.py)    *)
(* and the withdraw flow built on it (tests/estes.py).                      *)
(*                                                                         *)
(* Representation.  The pairing groups G1, G2 and GT are cyclic of the     *)
(* same prime order o, so a point is held as its discrete logarithm with   *)
(* respect to the group's generator: g1 and g2 are 1, the identity is 0,   *)
(* P + Q is addition mod o, k*P is multiplication mod o, and the pairing   *)
(* e(a*g1, b*g2) is a*b in GT.  Order is a small prime standing for the    *)
(* order of the curve.  Python lists are sequences; a Python index i is    *)
(* the position i+1 here.  A raised exception is a record whose field exc  *)
(* names it.  The two hash functions are taken as collision free: the      *)
(* SHA-256 digest of a transcript is held as the transcript itself (equal  *)
(* digests are equal transcripts) together with its residue mod o, and     *)
(* hash-to-G1 never yields the identity.                                    *)
(***************************************************************************)
EXTENDS Integers, Sequences, FiniteSets, TLC

\* ---------------------------------------------------------------- bounds
\* the o.random() draws of one call form a tape: draw number i of the call
\* is seed + step * (i - 1) mod o, with seed in 0..MaxSeed, step in 0..MaxStep
MaxSeed == 2
MaxStep == 2
\* number of authorities n is at most MaxN, threshold t at most MaxT
MaxN == 3
MaxT == 2
\* attribute values are taken in 1..MaxAttr
MaxAttr == 2
\* accept_withdraw is called at most MaxCalls times
MaxCalls == 2

\* ------------------------------------------------------------ the groups
Order == 5
g1 == 1
g2 == 1
Zo == 0 .. (Order - 1)
Tapes == [seed : 0 .. MaxSeed, step : 0 .. MaxStep]
Draw(tape, i) == (tape.seed + tape.step * (i - 1)) % Order
Draws(tape, from, k) == [i \in 1 .. k |-> Draw(tape, from + i - 1)]
Attr == 1 .. MaxAttr
Inf == 0

Red(k) == k % Order
Add(P, Q) == (P + Q) % Order
Sub(P, Q) == (P - Q) % Order
Mul(k, P) == ((k % Order) * P) % Order
pair(P, Q) == (P * Q) % Order
isinf(P) == P = Inf

\* G.hashG1: a point of G1 that is never the identity
hashG1(x) == 1 + ((3 * x + 1) % (Order - 1))

Range(s) == {s[i] : i \in DOMAIN s}
Seq1(S, k) == [1 .. k -> S]
SeqUpTo(S, k) == UNION {[1 .. j -> S] : j \in 0 .. k}

None == <<>>
Ok(v) == [exc |-> "none", val |-> v]
Raise(e) == [exc |-> e, val |-> <<>>]
IsOk(r) == r.exc = "none"

\* ------------------------------------------------------- coconut/utils
RECURSIVE ec_sum(_)
ec_sum(list) ==
  IF list = <<>> THEN Inf ELSE Add(list[1], ec_sum(Tail(list)))

RECURSIVE Power(_, _)
Power(x, j) == IF j = 0 THEN 1 ELSE (x * Power(x, j - 1)) % Order

\* poly_eval(coeffs, x) = sum of coeffs[j] * x^j
RECURSIVE PolySum(_, _, _)
PolySum(coeff, x, j) ==
  IF j > Len(coeff) THEN 0
  ELSE (coeff[j] * Power(x, j - 1) + PolySum(coeff, x, j + 1)) % Order

poly_eval(coeff, x) == PolySum(coeff, x, 1)

Invertible(a) == \E b \in 1 .. (Order - 1) : (a * b) % Order = 1
mod_inverse(a) == CHOOSE b \in 1 .. (Order - 1) : (a * b) % Order = 1

RECURSIVE BasisProd(_, _, _)
BasisProd(indexes, i, k) ==
  IF k > Len(indexes) THEN 1
  ELSE IF indexes[k] = indexes[i] THEN BasisProd(indexes, i, k + 1)
  ELSE (Red(0 - indexes[k]) * mod_inverse(Red(indexes[i] - indexes[k]))
          * BasisProd(indexes, i, k + 1)) % Order

\* lagrange_basis(indexes, o): the basis polynomials evaluated at 0
lagrange_basis(indexes) ==
  [i \in 1 .. Len(indexes) |-> BasisProd(indexes, i, 1)]

elgamal_keygen(d) == <<d, Mul(d, g1)>>
elgamal_enc(gamma, m, h, k) == <<Mul(k, g1), Add(Mul(k, gamma), Mul(m, h)), k>>
elgamal_dec(d, c) == Sub(c[2], Mul(d, c[1]))

\* ------------------------------------------------------- coconut/scheme
\* setup(q): hs[i] = hashG1("h%s" % i), points other than g1 and the identity
setup(q) == [j \in 1 .. q |-> 2 + ((j - 1) % (Order - 2))]

\* ttp_keygen, the polynomials v and w being its o.random() draws
ttp_keygen(hs, t, n, v, w) ==
  LET x == [i \in 1 .. n |-> poly_eval(v, i)]
      y == [i \in 1 .. n |-> [j \in 1 .. Len(hs) |-> poly_eval(w[j], i)]]
      sk == [i \in 1 .. n |-> <<x[i], y[i]>>]
      vk == [i \in 1 .. n |->
               <<g2, Mul(x[i], g2), [j \in 1 .. Len(hs) |-> Mul(y[i][j], g2)]>>]
  IN  <<sk, vk>>

\* keygen, x and y being its o.random() draws
keygen(hs, x, y) == <<<<x, y>>, <<g2, Mul(x, g2), [j \in 1 .. Len(y) |-> Mul(y[j], g2)]>>>>

\* the positions of the entries of a list that are not None
RECURSIVE Present(_, _)
Present(list, i) ==
  IF i > Len(list) THEN <<>>
  ELSE IF list[i] = None THEN Present(list, i + 1)
  ELSE <<i>> \o Present(list, i + 1)

\* filter = [list[i] for i in range(len(list)) if list[i] is not None]
Filter(list) == [k \in 1 .. Len(Present(list, 1)) |-> list[Present(list, 1)[k]]]

\* the positions counted from 0
IndexesFromZero(list) == [k \in 1 .. Len(Present(list, 1)) |-> Present(list, 1)[k] - 1]

\* indexes = [i+1 for i in range(len(list)) if list[i] is not None]
Indexes(list) == Present(list, 1)

agg_key(vks, threshold) ==
  LET indexes == Indexes(vks)
      filter == Filter(vks)
      l == IF threshold THEN lagrange_basis(indexes)
           ELSE [i \in 1 .. Len(vks) |-> 1]
      q == Len(filter[1][3])
      aggr_alpha == ec_sum([i \in 1 .. Len(filter) |-> Mul(l[i], filter[i][2])])
      aggr_beta == [j \in 1 .. q |->
                      ec_sum([i \in 1 .. Len(filter) |-> Mul(l[i], filter[i][3][j])])]
  IN  IF filter = <<>> THEN Raise("ValueError")
      ELSE Ok(<<g2, aggr_alpha, aggr_beta>>)

\* ------------------------------------------------------- coconut/proofs
\* to_challenge: the SHA-256 digest of the transcript `elements`
to_challenge(elements) == [sha256 |-> elements]

\* the residue mod o of a digest, as used when a digest multiplies a point
RECURSIVE Weighted(_, _)
Weighted(c, k) ==
  IF k > Len(c) THEN 0 ELSE (k * c[k] + Weighted(c, k + 1)) % (Order - 1)

CVal(c) == 1 + Weighted(c.sha256, 1)

\* class ExtraProof, and the two classes of tests/estes.py that stand in for it
ExtraProof ==
  [kind |-> "ExtraProof", serial_number |-> 0, serial_witness |-> 0,
   serial_commit |-> 0, witness_commits |-> <<>>, base_points |-> <<>>]

SignWithdrawProof(serial_number, serial_witness) ==
  [kind |-> "SignWithdrawProof", serial_number |-> serial_number,
   serial_witness |-> serial_witness, serial_commit |-> 0,
   witness_commits |-> <<Mul(serial_witness, g1)>>, base_points |-> <<g1>>]

VerifyWithdrawProof(serial_commit) ==
  [kind |-> "VerifyWithdrawProof", serial_number |-> 0, serial_witness |-> 0,
   serial_commit |-> serial_commit, witness_commits |-> <<>>,
   base_points |-> <<g1>>]

compute_responses(extra_proof, challenge) ==
  IF extra_proof.kind = "SignWithdrawProof"
  THEN <<Red(extra_proof.serial_witness - CVal(challenge) * extra_proof.serial_number)>>
  ELSE <<>>

recompute_witness(extra_proof, challenge, responses) ==
  IF extra_proof.kind = "VerifyWithdrawProof"
  THEN IF Len(responses) # 1 THEN Raise("AssertionError")
       ELSE Ok(<<Add(Mul(CVal(challenge), extra_proof.serial_commit),
                     Mul(responses[1], g1))>>)
  ELSE Ok(<<>>)

make_pi_s(hs, gamma, ciphertext, cm, k, r, public_m, private_m, extra_proof, wr, wk, wm) ==
  LET attributes == private_m \o public_m
      h == hashG1(cm)
      Aw == [i \in 1 .. Len(wk) |-> Mul(wk[i], g1)]
      Bw == [i \in 1 .. Len(private_m) |->
               Add(Mul(wk[i], gamma), Mul(wm[i], h))]
      Cw == Add(Mul(wr, g1),
                ec_sum([i \in 1 .. Len(attributes) |-> Mul(wm[i], hs[i])]))
      c == to_challenge(<<g1, g2, cm, h, Cw>> \o hs \o Aw \o Bw
                          \o extra_proof.witness_commits
                          \o extra_proof.base_points)
      rr == Red(wr - CVal(c) * r)
      rk == [i \in 1 .. Len(wk) |-> Red(wk[i] - CVal(c) * k[i])]
      rm == [i \in 1 .. Len(wm) |-> Red(wm[i] - CVal(c) * attributes[i])]
  IN  IF Len(ciphertext) # Len(k) \/ Len(ciphertext) # Len(private_m)
        THEN Raise("AssertionError")
      ELSE IF Len(attributes) > Len(hs) THEN Raise("AssertionError")
      ELSE Ok(<<c, rk, rm, rr>> \o compute_responses(extra_proof, c))

verify_pi_s(hs, gamma, ciphertext, cm, proof, extra_proof) ==
  LET c == proof[1]
      rk == proof[2]
      rm == proof[3]
      rr == proof[4]
      extra_responses == SubSeq(proof, 5, Len(proof))
      h == hashG1(cm)
      Aw == [i \in 1 .. Len(rk) |->
               Add(Mul(CVal(c), ciphertext[i][1]), Mul(rk[i], g1))]
      Bw == [i \in 1 .. Len(ciphertext) |->
               Add(Add(Mul(CVal(c), ciphertext[i][2]), Mul(rk[i], gamma)),
                   Mul(rm[i], h))]
      Cw == Add(Add(Mul(CVal(c), cm), Mul(rr, g1)),
                ec_sum([i \in 1 .. Len(rm) |-> Mul(rm[i], hs[i])]))
      extra_witness == recompute_witness(extra_proof, c, extra_responses)
  IN  IF Len(ciphertext) # Len(rk) THEN Raise("AssertionError")
      ELSE IF ~IsOk(extra_witness) THEN extra_witness
      ELSE Ok(c = to_challenge(<<g1, g2, cm, h, Cw>> \o hs \o Aw \o Bw
                                 \o extra_witness.val
                                 \o extra_proof.base_points))

make_pi_v(hs, aggr_vk, sigma, private_m, t, extra_proof, wm, wt) ==
  LET alpha == aggr_vk[2]
      beta == aggr_vk[3]
      h == sigma[1]
      Aw == Add(Add(Mul(wt, g2), alpha),
                ec_sum([i \in 1 .. Len(private_m) |-> Mul(wm[i], beta[i])]))
      Bw == Mul(wt, h)
      c == to_challenge(<<g1, g2, alpha, Aw, Bw>> \o hs \o beta
                          \o extra_proof.witness_commits
                          \o extra_proof.base_points)
      rm == [i \in 1 .. Len(private_m) |-> Red(wm[i] - CVal(c) * private_m[i])]
      rt == Red(wt - CVal(c) * t)
  IN  <<c, rm, rt>> \o compute_responses(extra_proof, c)

verify_pi_v(hs, aggr_vk, sigma, kappa, nu, pi_v, extra_proof) ==
  LET alpha == aggr_vk[2]
      beta == aggr_vk[3]
      h == sigma[1]
      c == pi_v[1]
      rm == pi_v[2]
      rt == pi_v[3]
      extra_responses == SubSeq(pi_v, 4, Len(pi_v))
      Aw == Add(Add(Add(Mul(CVal(c), kappa), Mul(rt, g2)),
                    Mul(1 - CVal(c), alpha)),
                ec_sum([i \in 1 .. Len(rm) |-> Mul(rm[i], beta[i])]))
      Bw == Add(Mul(CVal(c), nu), Mul(rt, h))
      extra_witness == recompute_witness(extra_proof, c, extra_responses)
  IN  IF ~IsOk(extra_witness) THEN extra_witness
      ELSE Ok(c = to_challenge(<<g1, g2, alpha, Aw, Bw>> \o hs \o beta
                                 \o extra_witness.val
                                 \o extra_proof.base_points))

\* ---------------------------------------------- coconut/scheme, continued
\* prepare_blind_sign; r, k and the witnesses wr, wk, wm are its random draws
prepare_blind_sign(hs, gamma, private_m, public_m, extra_proof, r, k, wr, wk, wm) ==
  LET attributes == private_m \o public_m
      cm == Add(Mul(r, g1),
                ec_sum([i \in 1 .. Len(attributes) |-> Mul(attributes[i], hs[i])]))
      h == hashG1(cm)
      enc == [i \in 1 .. Len(private_m) |->
                elgamal_enc(gamma, private_m[i], h, k[i])]
      c == [i \in 1 .. Len(enc) |-> <<enc[i][1], enc[i][2]>>]
      kk == [i \in 1 .. Len(enc) |-> enc[i][3]]
      pi_s == make_pi_s(hs, gamma, c, cm, kk, r, public_m, private_m,
                        extra_proof, wr, wk, wm)
  IN  IF Len(private_m) = 0 THEN Raise("AssertionError")
      ELSE IF Len(attributes) > Len(hs) THEN Raise("AssertionError")
      ELSE IF ~IsOk(pi_s) THEN pi_s
      ELSE Ok(<<cm, c, pi_s.val>>)

Min(a, b) == IF a < b THEN a ELSE b

\* zip(y, points): the pairs (y[i], points[i]) up to the shorter length
Zip(y, points) == [i \in 1 .. Min(Len(y), Len(points)) |-> <<y[i], points[i]>>]

\* `assert verify_pi_s(...)` of blind_sign passes
RequestProofSkipped(checked) == TRUE
RequestProofHolds(checked) == IsOk(checked) /\ checked.val

\* list(b)+t1: the points the y[i] multiply in t3
PublicFirst(b, t1) == t1 \o b
PrivateThenPublic(b, t1) == b \o t1

blind_sign(hs, sk, gamma, Lambda, public_m, extra_proof) ==
  LET x == sk[1]
      y == sk[2]
      cm == Lambda[1]
      c == Lambda[2]
      pi_s == Lambda[3]
      a == [i \in 1 .. Len(c) |-> c[i][1]]
      b == [i \in 1 .. Len(c) |-> c[i][2]]
      checked == verify_pi_s(hs, gamma, c, cm, pi_s, extra_proof)
      h == hashG1(cm)
      t1 == [i \in 1 .. Len(public_m) |-> Mul(public_m[i], h)]
      ya == Zip(y, a)
      yb == Zip(y, PrivateThenPublic(b, t1))
      t2 == ec_sum([i \in 1 .. Len(ya) |-> Mul(ya[i][1], ya[i][2])])
      t3 == Add(Mul(x, h), ec_sum([i \in 1 .. Len(yb) |-> Mul(yb[i][1], yb[i][2])]))
  IN  IF Len(c) + Len(public_m) > Len(hs) THEN Raise("AssertionError")
      ELSE IF ~RequestProofHolds(checked)
        THEN (IF IsOk(checked) THEN Raise("AssertionError") ELSE checked)
      ELSE Ok(<<h, <<t2, t3>>>>)

unblind(sigma_tilde, d) == <<sigma_tilde[1], elgamal_dec(d, sigma_tilde[2])>>

agg_cred(sigs, threshold) ==
  LET indexes == Indexes(sigs)
      filter == Filter(sigs)
      l == IF threshold THEN lagrange_basis(indexes)
           ELSE [i \in 1 .. Len(sigs) |-> 1]
      aggr_s == ec_sum([i \in 1 .. Len(filter) |-> Mul(l[i], filter[i][2])])
  IN  IF filter = <<>> THEN Raise("ValueError")
      ELSE Ok(<<filter[1][1], aggr_s>>)

\* prove_cred; r_prime, r and the witnesses wm, wt are its random draws
prove_cred(hs, aggr_vk, sigma, private_m, extra_proof, r_prime, r, wm, wt) ==
  LET alpha == aggr_vk[2]
      beta == aggr_vk[3]
      h_prime == Mul(r_prime, sigma[1])
      s_prime == Mul(r_prime, sigma[2])
      sigma_prime == <<h_prime, s_prime>>
      kappa == Add(Add(Mul(r, g2), alpha),
                   ec_sum([i \in 1 .. Len(private_m) |-> Mul(private_m[i], beta[i])]))
      nu == Mul(r, h_prime)
      pi_v == make_pi_v(hs, aggr_vk, sigma_prime, private_m, r, extra_proof, wm, wt)
  IN  IF Len(private_m) = 0 THEN Raise("AssertionError")
      ELSE IF Len(private_m) > Len(beta) THEN Raise("AssertionError")
      ELSE Ok(<<kappa, nu, sigma_prime, pi_v>>)

\* beta[i+private_m_len]: the base of public attribute i
PublicBaseUnshifted(beta, i, private_m_len) == beta[i]
PublicBase(beta, i, private_m_len) == beta[i + private_m_len]

\* `not h.isinf()` of verify_cred
IdentityAllowed(h) == TRUE
NotIdentity(h) == ~isinf(h)

verify_cred(hs, aggr_vk, Theta, public_m, extra_proof) ==
  LET beta == aggr_vk[3]
      kappa == Theta[1]
      nu == Theta[2]
      sigma == Theta[3]
      pi_v == Theta[4]
      h == sigma[1]
      s == sigma[2]
      private_m_len == Len(pi_v[2])
      checked == verify_pi_v(hs, aggr_vk, sigma, kappa, nu, pi_v, extra_proof)
      aggr == IF Len(public_m) # 0
              THEN ec_sum([i \in 1 .. Len(public_m) |->
                             Mul(public_m[i], PublicBase(beta, i, private_m_len))])
              ELSE Inf
  IN  IF Len(public_m) + private_m_len > Len(beta) THEN Raise("AssertionError")
      ELSE IF ~IsOk(checked) THEN checked
      ELSE IF ~checked.val THEN Raise("AssertionError")
      ELSE Ok(NotIdentity(h) /\ pair(h, Add(kappa, aggr)) = pair(Add(s, nu), g2))

\* ================================================================ state
VARIABLES
  pc,               \* how far the session has come
  hs,               \* params: the bases hs of setup(q)
  keys,             \* ttp_keygen / keygen: t, n, the polynomials, sk and vk
  vks,              \* the list of verification keys handed to agg_key
  aggr_vk,          \* what agg_key returned
  user,             \* the requester: d, gamma, private_m, public_m
  Lambda,           \* the request of prepare_blind_sign
  signed,           \* the call of blind_sign: its inputs and what it returned
  sigs,             \* the list of partial credentials handed to agg_cred
  sigma,            \* the unblinded / aggregated credential
  Theta,            \* the presentation of prove_cred
  shown,            \* the call of verify_cred: its inputs and what it returned
  coin,             \* tests/estes.py: serial_number and credential of deposit
  withdraw_request, \* tests/estes.py: (proof, serial_commit) of request_withdraw
  spent_serials,    \* tests/estes.py: the module's list spent_serials
  last,             \* the last call of accept_withdraw and what it returned
  accepted          \* the serial commitments accept_withdraw returned True for

vars == <<pc, hs, keys, vks, aggr_vk, user, Lambda, signed, sigs, sigma, Theta, shown,
          coin, withdraw_request, spent_serials, last, accepted>>

\* number_attributes of tests/estes.py, the q given to setup
number_attributes == 2

Init ==
  /\ pc = "setup"
  /\ hs = setup(number_attributes)
  /\ keys = None /\ vks = None /\ aggr_vk = None /\ user = None
  /\ Lambda = None /\ signed = None /\ sigs = None /\ sigma = None /\ Theta = None
  /\ shown = None /\ coin = None /\ withdraw_request = None
  /\ spent_serials = <<>> /\ last = None /\ accepted = <<>>

\* the polynomials ttp_keygen draws: v, then w[1], ..., w[q]
PolyV(tape, t) == Draws(tape, 1, t)
PolyW(tape, t, q) == [j \in 1 .. q |-> Draws(tape, j * t + 1, t)]

KeyRecord(t, n, v, w) ==
  [t |-> t, n |-> n, v |-> v, w |-> w,
   sk |-> ttp_keygen(hs, t, n, v, w)[1], vk |-> ttp_keygen(hs, t, n, v, w)[2]]

\* (sk, vk) = ttp_keygen(params, t, n), for 1 <= t <= n
TtpKeygen ==
  /\ pc = "setup"
  /\ \E n \in 1 .. MaxN, t \in 1 .. MaxT, tape \in Tapes :
       /\ t <= n
       /\ keys' = KeyRecord(t, n, PolyV(tape, t), PolyW(tape, t, Len(hs)))
  /\ pc' = "keys"
  /\ UNCHANGED <<hs, vks, aggr_vk, user, Lambda, signed, sigs, sigma, Theta, shown,
                 coin, withdraw_request, spent_serials, last, accepted>>

\* the list vk with None at every position outside S
Only(list, S) == [i \in 1 .. Len(list) |-> IF i \in S THEN list[i] ELSE None]

\* aggr_vk = agg_key(params, vks) over a list in which some keys are None
AggKey ==
  /\ pc = "keys"
  /\ \E S \in SUBSET (1 .. keys.n) :
       /\ vks' = Only(keys.vk, S)
       /\ aggr_vk' = agg_key(Only(keys.vk, S), TRUE)
  /\ pc' = "aggregated"
  /\ UNCHANGED <<hs, keys, user, Lambda, signed, sigs, sigma, Theta, shown,
                 coin, withdraw_request, spent_serials, last, accepted>>

NextKey == TtpKeygen \/ AggKey

SpecKey == Init /\ [][NextKey]_vars

NumPresent(list) == Cardinality({i \in 1 .. Len(list) : list[i] # None})

\* the verification key of the master secret (v(0), w_1(0), ..., w_q(0))
MasterKey == <<g2, Mul(keys.v[1], g2), [j \in 1 .. Len(hs) |-> Mul(keys.w[j][1], g2)]>>

\* C3: agg_key over any list of the n verification keys with at least t of
\* them present (None elsewhere) returns the key of the master secret,
\* (g2, v(0)*g2, [w_j(0)*g2]), whichever keys are present.
C3_KeyAggregationSubsetIndependent ==
  (pc = "aggregated" /\ NumPresent(vks) >= keys.t) => aggr_vk = Ok(MasterKey)

\* a proper subset of threshold size was aggregated, of a key that is not zero
C3_Witness ==
  /\ pc = "aggregated"
  /\ keys.t = 2 /\ keys.n = 3 /\ NumPresent(vks) = 2 /\ vks[1] = None
  /\ keys.v[2] # 0
  /\ aggr_vk = Ok(MasterKey)

\* ------------------------------------------------------------ issuance
\* (sk, vk) = keygen(params): one authority, x and y drawn at random
Keygen ==
  /\ pc = "setup"
  /\ \E tape \in Tapes :
       LET x == Draw(tape, 1)
           y == Draws(tape, 2, Len(hs))
       IN  keys' = [t |-> 1, n |-> 1, v |-> <<x>>, w |-> [j \in 1 .. Len(hs) |-> <<y[j]>>],
                    sk |-> <<keygen(hs, x, y)[1]>>, vk |-> <<keygen(hs, x, y)[2]>>]
  /\ pc' = "keys"
  /\ UNCHANGED <<hs, vks, aggr_vk, user, Lambda, signed, sigs, sigma, Theta, shown,
                 coin, withdraw_request, spent_serials, last, accepted>>

\* (d, gamma) = elgamal_keygen(params)
ElGamalKeygen ==
  /\ pc = "keys"
  /\ \E tape \in Tapes :
       user' = [d |-> elgamal_keygen(Draw(tape, 1))[1],
                gamma |-> elgamal_keygen(Draw(tape, 1))[2],
                private_m |-> <<>>, public_m |-> <<>>]
  /\ pc' = "elgamal"
  /\ UNCHANGED <<hs, keys, vks, aggr_vk, Lambda, signed, sigs, sigma, Theta, shown,
                 coin, withdraw_request, spent_serials, last, accepted>>

\* prepare_blind_sign with its draws taken from a tape in the order of the
\* code: r, the k of each elgamal_enc, then wr, wk and wm of make_pi_s
Prepare(gamma, private_m, public_m, extra_proof, tape) ==
  LET np == Len(private_m)
      na == Len(private_m) + Len(public_m)
  IN  prepare_blind_sign(hs, gamma, private_m, public_m, extra_proof,
                         Draw(tape, 1), Draws(tape, 2, np), Draw(tape, np + 2),
                         Draws(tape, np + 3, np), Draws(tape, 2 * np + 3, na))

\* Lambda = prepare_blind_sign(params, gamma, private_m, public_m)
PrepareBlindSign ==
  /\ pc = "elgamal"
  /\ \E private_m \in Seq1(Attr, 1), public_m \in SeqUpTo(Attr, Len(hs) - 1),
        tape \in Tapes :
       /\ Lambda' = Prepare(user.gamma, private_m, public_m, ExtraProof, tape).val
       /\ user' = [user EXCEPT !.private_m = private_m, !.public_m = public_m]
  /\ pc' = "requested"
  /\ UNCHANGED <<hs, keys, vks, aggr_vk, signed, sigs, sigma, Theta, shown,
                 coin, withdraw_request, spent_serials, last, accepted>>

\* the requests an authority may receive in place of L: L itself, and L with
\* its commitment, a ciphertext or a response of its proof altered
Requests(L) ==
  { L,
    <<Add(L[1], g1), L[2], L[3]>>,
    <<L[1], [L[2] EXCEPT ![1] = <<L[2][1][1], Add(L[2][1][2], g1)>>], L[3]>>,
    <<L[1], L[2], [L[3] EXCEPT ![4] = Red(L[3][4] + 1)]>> }

\* sigma_tilde = blind_sign(params, sk, gamma, Lambda, public_m), called by the
\* authority with the request it received and the public attributes it was given
BlindSign ==
  /\ pc = "requested"
  /\ \E L \in Requests(Lambda), public_m \in SeqUpTo(Attr, Len(hs) - 1),
        gamma \in {user.gamma, Add(user.gamma, g1)} :
       signed' = [cm |-> L[1], public_m |-> public_m,
                  honest |-> (L = Lambda /\ gamma = user.gamma),
                  checked |-> verify_pi_s(hs, gamma, L[2], L[1], L[3], ExtraProof),
                  ret |-> blind_sign(hs, keys.sk[1], gamma, L, public_m, ExtraProof)]
  /\ Lambda' = None
  /\ pc' = "signed"
  /\ UNCHANGED <<hs, keys, vks, aggr_vk, user, sigs, sigma, Theta, shown,
                 coin, withdraw_request, spent_serials, last, accepted>>

\* sigma = unblind(params, sigma_tilde, d)
Unblind ==
  /\ pc = "signed"
  /\ IsOk(signed.ret)
  /\ sigma' = unblind(signed.ret.val, user.d)
  /\ pc' = "unblinded"
  /\ UNCHANGED <<hs, keys, vks, aggr_vk, user, Lambda, signed, sigs, Theta, shown,
                 coin, withdraw_request, spent_serials, last, accepted>>

NextIssue == Keygen \/ ElGamalKeygen \/ PrepareBlindSign \/ BlindSign \/ Unblind

SpecIssue == Init /\ [][NextIssue]_vars

\* the attributes of the request, private ones first
Attributes == user.private_m \o user.public_m

\* (h, x*h + sum_j y[j]*attr[j]*h) for the authority's key (x, y)
PlainSignature ==
  LET x == keys.sk[1][1]
      y == keys.sk[1][2]
      h == hashG1(signed.cm)
  IN  <<h, Add(Mul(x, h),
               ec_sum([j \in 1 .. Len(Attributes) |-> Mul(y[j] * Attributes[j], h)]))>>

\* C9: for a request of prepare_blind_sign(gamma, private_m, public_m) with
\* gamma = d*g1, unblind(blind_sign(sk, gamma, Lambda, public_m), d) is
\* (h, x*h + sum_j y[j]*attr[j]*h) with attr = private_m followed by public_m
\* and h the hash of cm; the ElGamal randomizers k_i do not appear in it.
C9_IssueThenUnblind ==
  (pc = "unblinded" /\ signed.honest /\ signed.public_m = user.public_m)
    => sigma = PlainSignature

\* an honest request with a private and a different public attribute was signed
\* under a key whose y differ, blinded with k # 0 and d # 0, and unblinded
C9_Witness ==
  /\ pc = "unblinded" /\ signed.honest /\ signed.public_m = user.public_m
  /\ Len(user.public_m) = 1 /\ user.public_m[1] # user.private_m[1]
  /\ keys.sk[1][2][1] # keys.sk[1][2][2]
  /\ user.d # 0 /\ signed.ret.val[2][1] # Inf
  /\ sigma = PlainSignature

\* blind_sign has returned, with a signature or with the exception `error`
SignsOnlyVerified(error) ==
  pc \in {"signed", "unblinded"} =>
    /\ ~(IsOk(signed.checked) /\ signed.checked.val) => signed.ret = Raise(error)
    /\ signed.honest =>
         /\ IsOk(signed.ret)
         /\ signed.ret.val[1] = hashG1(signed.cm)
         /\ Len(signed.ret.val[2]) = 2

C5_IssuanceBindsPublicAttributes ==
  (/\ pc = "signed" /\ signed.honest
   /\ Len(signed.public_m) = Len(user.public_m)
   /\ signed.public_m # user.public_m)
    => ~IsOk(signed.ret)

\* ------------------------------------------------------- show and verify
\* t, n = 2, 3 of the example in the docstring of coconut/scheme.py
example_t == 2
example_n == 3

\* (sk, vk) = ttp_keygen(params, t, n); aggr_vk = agg_key(params, vk)
ExampleKeygen ==
  /\ pc = "setup"
  /\ \E tape \in Tapes :
       LET K == KeyRecord(example_t, example_n, PolyV(tape, example_t),
                          PolyW(tape, example_t, Len(hs)))
       IN  /\ keys' = K
           /\ vks' = K.vk
           /\ aggr_vk' = agg_key(K.vk, TRUE)
  /\ pc' = "keys"
  /\ UNCHANGED <<hs, user, Lambda, signed, sigs, sigma, Theta, shown,
                 coin, withdraw_request, spent_serials, last, accepted>>

\* the partial credentials of a request: elgamal_keygen, prepare_blind_sign,
\* blind_sign by every authority, unblind of every partial signature; the
\* draws of the requester come from one tape, d first
PartialCredentials(sk, private_m, public_m, tape) ==
  LET eg == elgamal_keygen(Draw(tape, 1))
      L == Prepare(eg[2], private_m, public_m, ExtraProof,
                   [seed |-> Draw(tape, 2), step |-> tape.step]).val
  IN  [i \in 1 .. Len(sk) |->
         unblind(blind_sign(hs, sk[i], eg[2], L, public_m, ExtraProof).val, eg[1])]

\* the example of the docstring from elgamal_keygen to unblind
IssueAll ==
  /\ pc = "keys"
  /\ \E private_m \in Seq1(Attr, 1), public_m \in SeqUpTo(Attr, Len(hs) - 1),
        tape \in Tapes :
       /\ user' = [private_m |-> private_m, public_m |-> public_m]
       /\ sigs' = PartialCredentials(keys.sk, private_m, public_m, tape)
  /\ pc' = "unblinded"
  /\ UNCHANGED <<hs, keys, vks, aggr_vk, Lambda, signed, sigma, Theta, shown,
                 coin, withdraw_request, spent_serials, last, accepted>>

\* sigma = agg_cred(params, sigs) over the partial credentials of S, None elsewhere
AggCred ==
  /\ pc = "unblinded"
  /\ \E S \in SUBSET (1 .. Len(sigs)) :
       /\ sigs' = Only(sigs, S)
       /\ sigma' = agg_cred(Only(sigs, S), TRUE)
  /\ pc' = "issued"
  /\ UNCHANGED <<hs, keys, vks, aggr_vk, user, Lambda, signed, Theta, shown,
                 coin, withdraw_request, spent_serials, last, accepted>>

\* prove_cred with its draws taken from a tape in the order of the code:
\* r_prime, r, then wm and wt of make_pi_v
Prove(avk, sg, private_m, extra_proof, tape) ==
  prove_cred(hs, avk, sg, private_m, extra_proof, Draw(tape, 1), Draw(tape, 2),
             Draws(tape, 3, Len(private_m)), Draw(tape, Len(private_m) + 3))

\* Theta = prove_cred(params, aggr_vk, sigma, private_m)
ProveCred ==
  /\ pc = "issued"
  /\ IsOk(sigma)
  /\ \E tape \in Tapes :
       Theta' = Prove(aggr_vk.val, sigma.val, user.private_m, ExtraProof, tape).val
  /\ pc' = "proved"
  /\ UNCHANGED <<hs, keys, vks, aggr_vk, user, Lambda, signed, sigs, sigma, shown,
                 coin, withdraw_request, spent_serials, last, accepted>>

\* the presentations a verifier may receive in place of T: T itself, and T
\* with kappa altered
Presentations(T) == { T, <<Add(T[1], g2), T[2], T[3], T[4]>> }

\* verify_cred(params, aggr_vk, Theta, public_m), called by the verifier with
\* the presentation it received and the public attributes it was given
VerifyCred ==
  /\ pc = "proved"
  /\ \E T \in Presentations(Theta), public_m \in SeqUpTo(Attr, Len(hs) - 1) :
       shown' = [public_m |-> public_m, honest |-> (T = Theta), h_prime |-> T[3][1],
                 ret |-> verify_cred(hs, aggr_vk.val, T, public_m, ExtraProof)]
  /\ Theta' = None
  /\ pc' = "verified"
  /\ UNCHANGED <<hs, keys, vks, aggr_vk, user, Lambda, signed, sigs, sigma,
                 coin, withdraw_request, spent_serials, last, accepted>>

NextShow == ExampleKeygen \/ IssueAll \/ AggCred \/ ProveCred \/ VerifyCred

SpecShow == Init /\ [][NextShow]_vars

RECURSIVE SumMod(_)
SumMod(list) == IF list = <<>> THEN 0 ELSE (list[1] + SumMod(Tail(list))) % Order

\* at least t partial credentials were aggregated
Sufficient == NumPresent(sigs) >= keys.t

\* verify_cred was given what prove_cred returned and the public attributes
\* the credential was issued on
HonestShow == pc = "verified" /\ shown.honest /\ shown.public_m = user.public_m

\* C1: for keys of ttp_keygen(t, n) and every set S of at least t authorities,
\* the credential aggregated from the shares of S (None elsewhere) verifies:
\* verify_cred on prove_cred of it returns true against agg_key of the n keys.
C1_ThresholdCorrectness ==
  (HonestShow /\ Sufficient) => shown.ret = Ok(TRUE)

\* the exponent x_i + sum_j y_i[j]*attr[j] authority i signs with
ShareExponent(i) ==
  Red(keys.sk[i][1]
      + SumMod([j \in 1 .. Len(Attributes) |-> keys.sk[i][2][j] * Attributes[j]]))

\* the Lagrange combination at 0 of the exponents of the shares present
PartialExponent ==
  LET pos == Present(sigs, 1)
  IN  SumMod([k \in 1 .. Len(pos) |->
                lagrange_basis(pos)[k] * ShareExponent(pos[k])])

\* the exponent v(0) + sum_j w_j(0)*attr[j] of the master secret
MasterExponent ==
  Red(keys.v[1]
      + SumMod([j \in 1 .. Len(Attributes) |-> keys.w[j][1] * Attributes[j]]))

Insufficient ==
  /\ pc \in {"issued", "proved", "verified"}
  /\ 1 <= NumPresent(sigs) /\ NumPresent(sigs) < keys.t

\* C2 as stated: for 1 <= |S| < t, agg_cred returns a credential without error
\* and verify_cred on prove_cred of it returns false.
C2_AsClaimed ==
  Insufficient => (IsOk(sigma) /\ (HonestShow => shown.ret = Ok(FALSE)))

\* C2 amended: for 1 <= |S| < t, agg_cred returns a credential without error,
\* and verify_cred on prove_cred of it returns true exactly when h' is not the
\* identity and the shares of S interpolate at 0 to the exponent of the master
\* secret for these attributes; otherwise it returns false.
C2_InsufficientShares ==
  Insufficient =>
    /\ IsOk(sigma)
    /\ HonestShow =>
         shown.ret = Ok(shown.h_prime # Inf /\ PartialExponent = MasterExponent)

\* one share of a 2-of-3 key was aggregated, shown and refused
C2_Witness ==
  /\ Insufficient /\ HonestShow /\ keys.t = 2
  /\ shown.h_prime # Inf
  /\ PartialExponent # MasterExponent
  /\ shown.ret = Ok(FALSE)

\* C4: verify_cred is total and returns a boolean: for every presentation,
\* also one whose proof pi_v does not verify, it returns false, not an error.
C4_VerifyCredTotal ==
  pc = "verified" =>
    /\ IsOk(shown.ret)
    /\ ~shown.honest => shown.ret = Ok(FALSE)

\* sum_i (pm'[i] - public_m[i]) * beta[k+i], for the list pm' given to verify_cred
PublicDifference ==
  LET beta == aggr_vk.val[3]
      k == Len(user.private_m)
  IN  ec_sum([i \in 1 .. Len(shown.public_m) |->
                Mul(shown.public_m[i] - user.public_m[i], beta[k + i])])

SameLengthShow ==
  /\ pc = "verified" /\ shown.honest /\ Sufficient
  /\ Len(shown.public_m) = Len(user.public_m)

issue_credential(attributes, secret_keys, tape) ==
  agg_cred(PartialCredentials(secret_keys, attributes, <<>>, tape), TRUE)

\* deposit(params, value, secret_keys); serial_number is its first draw
deposit(value, secret_keys, tape) ==
  LET serial_number == Draw(tape, 1)
      credential == issue_credential(<<value, serial_number>>, secret_keys,
                                     [seed |-> Draw(tape, 2), step |-> tape.step])
  IN  [serial_number |-> serial_number,
       attributes |-> <<value, serial_number>>,
       credential |-> credential.val]

\* request_withdraw(params, verify_key, attributes, credential); the first
\* draw is the serial_witness of SignWithdrawProof, the rest are prove_cred's
request_withdraw(verify_key, attributes, credential, tape) ==
  LET serial_commit == Mul(attributes[2], g1)
      withdraw_proof == SignWithdrawProof(attributes[2], Draw(tape, 1))
      proof == Prove(verify_key, credential, attributes, withdraw_proof,
                     [seed |-> Draw(tape, 2), step |-> tape.step])
  IN  <<proof.val, serial_commit>>

\* the membership in spent_serials is never looked at
NeverSpent(serial_commit, spent) == FALSE

\* serial_commit in spent_serials
AlreadySpent(serial_commit, spent) == serial_commit \in Range(spent)

\* accept_withdraw(params, verify_key, withdraw_request, crypto_address) with
\* the list spent_serials it starts from: what it returns, the list it leaves,
\* and whether it came to verify the proof
accept_withdraw(verify_key, request, spent) ==
  LET serial_commit == request[2]
      success == verify_cred(hs, verify_key, request[1], <<>>,
                             VerifyWithdrawProof(serial_commit))
  IN  IF AlreadySpent(serial_commit, spent)
      THEN [ret |-> Ok(FALSE), spent_serials |-> spent, verified |-> FALSE]
      ELSE IF ~IsOk(success)
      THEN [ret |-> success, spent_serials |-> spent, verified |-> TRUE]
      ELSE IF ~success.val
      THEN [ret |-> Ok(FALSE), spent_serials |-> spent, verified |-> TRUE]
      ELSE [ret |-> Ok(TRUE), spent_serials |-> Append(spent, serial_commit),
            verified |-> TRUE]

\* value_deposit of main
value_deposit == 110

\* the number of calls of accept_withdraw so far
Calls == IF last = None THEN 0 ELSE last.n

\* serial_number, credential = deposit(params, value, secret_keys): the first
\* coin, or the next one once the coin in hand has been withdrawn
Deposit ==
  /\ \/ pc = "keys"
     \/ pc = "wallet" /\ Mul(coin.serial_number, g1) \in Range(spent_serials)
  /\ Calls < MaxCalls
  /\ \E tape \in Tapes :
       coin' = deposit(value_deposit, keys.sk, tape)
  /\ withdraw_request' = None
  /\ pc' = "wallet"
  /\ UNCHANGED <<hs, keys, vks, aggr_vk, user, Lambda, signed, sigs, sigma, Theta,
                 shown, spent_serials, last, accepted>>

\* withdraw_request = request_withdraw(params, verify_key, attributes, credential)
RequestWithdraw ==
  /\ pc = "wallet"
  /\ withdraw_request = None
  /\ \E tape \in Tapes :
       withdraw_request' =
         request_withdraw(aggr_vk.val, coin.attributes, coin.credential, tape)
  /\ UNCHANGED <<pc, hs, keys, vks, aggr_vk, user, Lambda, signed, sigs, sigma, Theta,
                 shown, coin, spent_serials, last, accepted>>

\* accept_withdraw called with the request, or with the request in which the
\* serial commitment is replaced by a point P
AcceptWithdraw ==
  /\ pc = "wallet"
  /\ withdraw_request # None
  /\ Calls < MaxCalls
  /\ \E P \in Zo :
       \E call \in {accept_withdraw(aggr_vk.val, <<withdraw_request[1], P>>,
                                     spent_serials)} :
           /\ spent_serials' = call.spent_serials
           /\ last' = [n |-> Calls + 1, serial_commit |-> P,
                       valid |-> (P = withdraw_request[2]),
                       verified |-> call.verified, ret |-> call.ret]
           /\ accepted' = IF call.ret = Ok(TRUE) THEN Append(accepted, P)
                          ELSE accepted
  /\ UNCHANGED <<pc, hs, keys, vks, aggr_vk, user, Lambda, signed, sigs, sigma, Theta,
                 shown, coin, withdraw_request>>

NextWithdraw == ExampleKeygen \/ Deposit \/ RequestWithdraw \/ AcceptWithdraw

SpecWithdraw == Init /\ [][NextWithdraw]_vars

\* C7: with the prover-side extra proof for serial number s and the
\* verifier-side extra proof holding P, verification of an otherwise valid
\* credential succeeds when P = s*g1 and fails when P is any other point.
C7_SerialProofComposition ==
  (last # None /\ last.verified) =>
    (last.ret = Ok(TRUE) <=> last.valid)

NoDuplicates(list) ==
  \A i, j \in 1 .. Len(list) : list[i] = list[j] => i = j

\* C10: over any sequence of accept_withdraw calls a serial commitment is
\* accepted at most once and is in spent_serials exactly when an earlier call
\* with it returned True; a call whose serial commitment is already in
\* spent_serials returns False without verifying and leaves spent_serials
\* unchanged; a call whose verification does not succeed leaves it unchanged.
C10_NoDoubleSpend ==
  /\ [](NoDuplicates(accepted) /\ Range(spent_serials) = Range(accepted))
  /\ [][Calls' # Calls =>
          /\ last'.serial_commit \in Range(spent_serials) =>
               /\ last'.ret = Ok(FALSE) /\ ~last'.verified
               /\ spent_serials' = spent_serials
          /\ last'.ret # Ok(TRUE) => spent_serials' = spent_serials]_vars

\* a serial commitment was accepted and a later call with it was refused
\* before the proof was looked at
C10_Witness ==
  /\ last # None /\ last.n >= 2
  /\ last.serial_commit \in Range(accepted)
  /\ last.valid
  /\ ~last.verified /\ last.ret = Ok(FALSE)
  /\ spent_serials = accepted

====
